---- MODULE Spec2Model ----
(***************************************************************************)
(* atl::forward_list (src/forward_list.tpp) over atl::allocator            *)
(* (src/allocator.h): a heap of singly linked nodes, a set of list objects *)
(* each holding a head pointer, and one action per public operation.       *)
(***************************************************************************)
EXTENDS Integers, Sequences, FiniteSets, TLC

\* ---------------------------------------------------------------- bounds
NumLists == 2       \* list objects that can exist at the same time
MaxNodes == 4       \* node addresses the heap can hand out
MaxVal == 2         \* element values are 1..MaxVal
MaxCount == 2       \* largest count passed to assign / resize
MaxCalls == 5       \* push_front / pop_front calls counted per run

Lists == 1..NumLists
Nodes == 1..MaxNodes
Vals == 1..MaxVal
NULL == 0
NoValue == 0

VARIABLES
    alive,        \* alive[l]: list object l is constructed and not destroyed
    head,         \* head[l]: forward_list_base::head (NULL when empty)
    next,         \* next[n]: fwd_list_node::next
    value,        \* value[n]: fwd_list_node::value
    allocd,       \* nodes whose memory is allocated and not deallocated
    constructed,  \* nodes whose value is constructed and not destroyed
    fault,        \* a destroy or deallocate hit a node that was not live
    pc,           \* "idle" between operations, "merge" inside merge's loop
    frame,        \* the locals of the running merge
    last,         \* what the last completed operation was and did
    npush,        \* push_front calls that returned normally
    npop          \* pop_front calls made on a non-empty list

hvars == <<alive, head, next, value, allocd, constructed, fault>>
vars == <<alive, head, next, value, allocd, constructed, fault, pc, frame, last,
          npush, npop>>

\* ------------------------------------------------------- sequence helpers
SetMin(S) == CHOOSE x \in S : \A y \in S : x <= y

Range(s) == {s[i] : i \in 1..Len(s)}

NoDup(s) == \A i, j \in 1..Len(s) : i # j => s[i] # s[j]

RECURSIVE Reverse(_)
Reverse(s) == IF s = <<>> THEN <<>> ELSE Append(Reverse(Tail(s)), Head(s))

Sorted(s) == \A i \in 1..(Len(s) - 1) : s[i] <= s[i + 1]

CountOf(s, x) == Cardinality({i \in 1..Len(s) : s[i] = x})

\* the nodes met by following nx from node n, at most fuel of them
RECURSIVE ChainFrom(_, _, _)
ChainFrom(nx, n, fuel) ==
    IF n = NULL \/ fuel = 0 THEN <<>>
    ELSE <<n>> \o ChainFrom(nx, nx[n], fuel - 1)

\* following nx from n reaches the null link within fuel steps
RECURSIVE ReachesNull(_, _, _)
ReachesNull(nx, n, fuel) ==
    IF n = NULL THEN TRUE
    ELSE IF fuel = 0 THEN FALSE
    ELSE ReachesNull(nx, nx[n], fuel - 1)

Chain(l) == ChainFrom(next, head[l], MaxNodes)

ValuesOf(ns) == [i \in 1..Len(ns) |-> value[ns[i]]]

Elems(l) == ValuesOf(Chain(l))

\* ------------------------------------------------------------- the store
\* The program state threaded through the statements of one operation, with
\* the log of what the operation created, destroyed and deallocated.
\* budget: how many more allocations succeed before allocate throws.
Store(b) ==
    [head |-> head, next |-> next, value |-> value, allocd |-> allocd,
     constructed |-> constructed, fault |-> fault, budget |-> b, threw |-> FALSE,
     ret |-> NULL, created |-> <<>>, destroyed |-> <<>>, deallocated |-> <<>>]

NoFail == MaxNodes + 1

Free(S) == Nodes \ S.allocd

\* an allocation that fails after it has taken the memory
AllocateNodeKeepsMemory(S) ==
    IF Free(S) = {}
    THEN [S EXCEPT !.threw = TRUE, !.ret = NULL]
    ELSE LET n == SetMin(Free(S))
         IN IF S.budget = 0
            THEN [S EXCEPT !.allocd = @ \cup {n}, !.threw = TRUE, !.ret = NULL]
            ELSE [S EXCEPT !.allocd = @ \cup {n}, !.ret = n,
                           !.budget = IF @ = NoFail THEN @ ELSE @ - 1]

\* allocator::allocate via forward_list_base::allocate_node: fresh raw memory,
\* or the out-of-memory failure of operator new
AllocateNode(S) ==
    IF S.budget = 0 \/ Free(S) = {}
    THEN [S EXCEPT !.threw = TRUE, !.ret = NULL]
    ELSE LET n == SetMin(Free(S))
         IN [S EXCEPT !.allocd = @ \cup {n}, !.ret = n,
                      !.budget = IF @ = NoFail THEN @ ELSE @ - 1]

\* allocator::deallocate via forward_list_base::deallocate_node
DeallocateNode(S, n) ==
    [S EXCEPT !.allocd = @ \ {n},
              !.next[n] = NULL,
              !.deallocated = Append(@, n),
              !.fault = @ \/ n \notin S.allocd]

\* allocator_traits::construct(value_alloc, &node->value, v)
ConstructValue(S, n, v) ==
    [S EXCEPT !.constructed = @ \cup {n}, !.value[n] = v]

\* allocator_traits::destroy(value_alloc, &node->value)
DestroyValue(S, n) ==
    [S EXCEPT !.constructed = @ \ {n},
              !.value[n] = NoValue,
              !.destroyed = Append(@, n),
              !.fault = @ \/ n \notin S.constructed]

\* forward_list_base::create_node
CreateNode(S, v) ==
    LET S1 == AllocateNode(S)
    IN IF S1.threw THEN S1
       ELSE [ConstructValue(S1, S1.ret, v) EXCEPT !.created = Append(@, S1.ret)]

\* forward_list_base::destroy_node
DestroyNode(S, n) == DeallocateNode(DestroyValue(S, n), n)

\* clear that empties every list object, not the receiver alone
RECURSIVE ClearEveryList(_, _)
ClearEveryList(S, l) ==
    IF \A k \in Lists : S.head[k] = NULL THEN S
    ELSE LET k == CHOOSE j \in Lists : S.head[j] # NULL
             tmp == S.head[k]
             S1 == [S EXCEPT !.head[k] = S.next[tmp]]
         IN ClearEveryList(DestroyNode(S1, tmp), l)

\* forward_list_base::clear
RECURSIVE Clear(_, _)
Clear(S, l) ==
    IF S.head[l] = NULL THEN S
    ELSE LET tmp == S.head[l]
             S1 == [S EXCEPT !.head[l] = S.next[tmp]]
         IN Clear(DestroyNode(S1, tmp), l)

\* push_front that stores the failed allocation's null result as the head
PushFrontLinksFailure(S, l, v) ==
    LET S1 == CreateNode(S, v)
    IN IF S1.threw THEN [S1 EXCEPT !.head[l] = S1.ret]
       ELSE [S1 EXCEPT !.next[S1.ret] = S.head[l], !.head[l] = S1.ret]

\* push_front that links the new node in front of nothing
PushFrontDropsTail(S, l, v) ==
    LET S1 == CreateNode(S, v)
    IN IF S1.threw THEN S1
       ELSE [S1 EXCEPT !.next[S1.ret] = NULL, !.head[l] = S1.ret]

\* forward_list::push_front(const Type&)
PushFront(S, l, v) ==
    LET S1 == CreateNode(S, v)
    IN IF S1.threw THEN S1
       ELSE [S1 EXCEPT !.next[S1.ret] = S.head[l], !.head[l] = S1.ret]

\* pop_front that destroys the head node without advancing head
PopFrontKeepsHead(S, l) ==
    IF S.head[l] # NULL THEN DestroyNode(S, S.head[l]) ELSE S

\* forward_list::pop_front
PopFront(S, l) ==
    IF S.head[l] # NULL
    THEN LET tmp == S.head[l]
             S1 == [S EXCEPT !.head[l] = S.next[tmp]]
         IN DestroyNode(S1, tmp)
    ELSE S

\* the copy loop of the copy constructor and of copy assignment:
\* for (current = other.head; current; current = current->next) push_front(current->value)
RECURSIVE CopyLoop(_, _, _)
CopyLoop(S, l, current) ==
    IF current = NULL THEN S
    ELSE LET S1 == PushFront(S, l, S.value[current])
         IN IF S1.threw THEN S1 ELSE CopyLoop(S1, l, S1.next[current])

\* copy assignment without the clear of the receiver
CopyAssignNoClear(S, l, o) ==
    IF l # o THEN CopyLoop(S, l, S.head[o]) ELSE S

\* forward_list::operator=(const forward_list&)
CopyAssign(S, l, o) ==
    IF l # o THEN CopyLoop(Clear(S, l), l, Clear(S, l).head[o]) ELSE S

\* move construction that leaves the source's head in place
MoveConstructKeepsSource(S, l, o) == [S EXCEPT !.head[l] = S.head[o]]

\* forward_list_base::forward_list_base(forward_list_base&&), used by
\* forward_list::forward_list(forward_list&&)
MoveConstruct(S, l, o) ==
    LET S1 == [S EXCEPT !.head[l] = S.head[o]]
    IN [S1 EXCEPT !.head[o] = NULL]

\* move assignment that takes the source's chain without clearing its own
MoveAssignNoClear(S, l, o) ==
    IF l # o
    THEN LET S2 == [S EXCEPT !.head[l] = S.head[o]]
         IN [S2 EXCEPT !.head[o] = NULL]
    ELSE S

\* forward_list::operator=(forward_list&&)
MoveAssign(S, l, o) ==
    IF l # o
    THEN LET S1 == Clear(S, l)
             S2 == [S1 EXCEPT !.head[l] = S1.head[o]]
         IN [S2 EXCEPT !.head[o] = NULL]
    ELSE S

\* the push loop of assign: for (i = 0; i < count; ++i) push_front(value)
RECURSIVE PushLoop(_, _, _, _)
PushLoop(S, l, k, v) ==
    IF k = 0 THEN S
    ELSE LET S1 == PushFront(S, l, v)
         IN IF S1.threw THEN S1 ELSE PushLoop(S1, l, k - 1, v)

\* forward_list::assign
Assign(S, l, count, v) == PushLoop(Clear(S, l), l, count, v)

\* the measuring loop of resize
RECURSIVE CurrentSize(_, _)
CurrentSize(S, current) ==
    IF current = NULL THEN 0 ELSE 1 + CurrentSize(S, S.next[current])

\* resize's shrinking loop stopping one node early
RECURSIVE ResizeShrinkStopsEarly(_, _, _, _)
ResizeShrinkStopsEarly(S, l, count, size) ==
    IF count + 1 < size THEN ResizeShrinkStopsEarly(PopFront(S, l), l, count, size - 1)
    ELSE S

RECURSIVE ResizeShrink(_, _, _, _)
ResizeShrink(S, l, count, size) ==
    IF count < size THEN ResizeShrink(PopFront(S, l), l, count, size - 1) ELSE S

RECURSIVE ResizeGrow(_, _, _, _, _)
ResizeGrow(S, l, count, size, v) ==
    IF count > size
    THEN LET S1 == PushFront(S, l, v)
         IN IF S1.threw THEN S1 ELSE ResizeGrow(S1, l, count, size + 1, v)
    ELSE S

\* forward_list::resize
Resize(S, l, count, v) ==
    LET size == CurrentSize(S, S.head[l])
    IN IF count < size THEN ResizeShrink(S, l, count, size)
       ELSE IF count > size THEN ResizeGrow(S, l, count, size, v)
       ELSE S

\* forward_list::swap (the allocator is stateless)
Swap(S, l, o) ==
    [S EXCEPT !.head = [@ EXCEPT ![l] = S.head[o], ![o] = S.head[l]]]

\* a Node** : the address of a list's head field or of a node's next field
HeadRef(l) == [kind |-> "head", of |-> l]
NextRef(n) == [kind |-> "next", of |-> n]
Deref(S, pos) == IF pos.kind = "head" THEN S.head[pos.of] ELSE S.next[pos.of]
StoreAt(S, pos, x) ==
    IF pos.kind = "head" THEN [S EXCEPT !.head[pos.of] = x]
    ELSE [S EXCEPT !.next[pos.of] = x]

\* the condition of merge's loop: *pos && other.head
MergeCond(S, pos, o) == Deref(S, pos) # NULL /\ S.head[o] # NULL

\* merge's loop body with the comparison turned round
MergeIterGreater(S, pos, o) ==
    IF S.value[Deref(S, pos)] > S.value[S.head[o]]
    THEN [st |-> S, pos |-> NextRef(Deref(S, pos))]
    ELSE LET temp == S.head[o]
             S1 == [S EXCEPT !.head[o] = S.next[temp]]
             S2 == [S1 EXCEPT !.next[temp] = Deref(S1, pos)]
         IN [st |-> StoreAt(S2, pos, temp), pos |-> pos]

\* merge's loop body advancing past receiver nodes of equal key (<= for <)
MergeIterLessEq(S, pos, o) ==
    IF S.value[Deref(S, pos)] <= S.value[S.head[o]]
    THEN [st |-> S, pos |-> NextRef(Deref(S, pos))]
    ELSE LET temp == S.head[o]
             S1 == [S EXCEPT !.head[o] = S.next[temp]]
             S2 == [S1 EXCEPT !.next[temp] = Deref(S1, pos)]
         IN [st |-> StoreAt(S2, pos, temp), pos |-> pos]

\* one iteration of merge's loop; yields the store and the new pos
MergeIter(S, pos, o) ==
    IF S.value[Deref(S, pos)] < S.value[S.head[o]]
    THEN [st |-> S, pos |-> NextRef(Deref(S, pos))]
    ELSE LET temp == S.head[o]
             S1 == [S EXCEPT !.head[o] = S.next[temp]]
             S2 == [S1 EXCEPT !.next[temp] = Deref(S1, pos)]
         IN [st |-> StoreAt(S2, pos, temp), pos |-> pos]

\* merge's tail without the reset of other.head
MergeTailKeepsOtherHead(S, pos, o) ==
    IF S.head[o] # NULL THEN StoreAt(S, pos, S.head[o]) ELSE S

\* the statements of merge after its loop
MergeTail(S, pos, o) ==
    IF S.head[o] # NULL
    THEN [StoreAt(S, pos, S.head[o]) EXCEPT !.head[o] = NULL]
    ELSE S

\* while (last->next) last = last->next
RECURSIVE LastNode(_, _)
LastNode(S, n) == IF S.next[n] = NULL THEN n ELSE LastNode(S, S.next[n])

\* forward_list::splice_after
SpliceAfter(S, p, o) ==
    IF S.head[o] = NULL THEN S
    ELSE LET lastn == LastNode(S, S.head[o])
             S1 == [S EXCEPT !.next[lastn] = S.next[p]]
             S2 == [S1 EXCEPT !.next[p] = S1.head[o]]
         IN [S2 EXCEPT !.head[o] = NULL]

\* remove's loop stepping past the node that follows a removed node
RECURSIVE RemoveLoopSkipsNext(_, _, _)
RemoveLoopSkipsNext(S, pos, v) ==
    LET cur == Deref(S, pos)
    IN IF cur = NULL THEN S
       ELSE IF S.value[cur] = v
            THEN LET S1 == DestroyNode(StoreAt(S, pos, S.next[cur]), cur)
                 IN IF Deref(S1, pos) = NULL THEN S1
                    ELSE RemoveLoopSkipsNext(S1, NextRef(Deref(S1, pos)), v)
            ELSE RemoveLoopSkipsNext(S, NextRef(cur), v)

\* forward_list::remove
RECURSIVE RemoveLoop(_, _, _)
RemoveLoop(S, pos, v) ==
    LET cur == Deref(S, pos)
    IN IF cur = NULL THEN S
       ELSE IF S.value[cur] = v
            THEN RemoveLoop(DestroyNode(StoreAt(S, pos, S.next[cur]), cur), pos, v)
            ELSE RemoveLoop(S, NextRef(cur), v)

Remove(S, l, v) == RemoveLoop(S, HeadRef(l), v)

\* forward_list::remove_if, the predicate given as the set of values it accepts
RECURSIVE RemoveIfLoop(_, _, _)
RemoveIfLoop(S, pos, pred) ==
    LET cur == Deref(S, pos)
    IN IF cur = NULL THEN S
       ELSE IF S.value[cur] \in pred
            THEN RemoveIfLoop(DestroyNode(StoreAt(S, pos, S.next[cur]), cur), pos, pred)
            ELSE RemoveIfLoop(S, NextRef(cur), pred)

RemoveIf(S, l, pred) == RemoveIfLoop(S, HeadRef(l), pred)

\* reverse's loop without the final store to head
RECURSIVE ReverseLoopKeepsHead(_, _, _, _)
ReverseLoopKeepsHead(S, l, prev, current) ==
    IF current # NULL
    THEN LET nxt == S.next[current]
         IN ReverseLoopKeepsHead([S EXCEPT !.next[current] = prev], l, current, nxt)
    ELSE S

\* forward_list::reverse
RECURSIVE ReverseLoop(_, _, _, _)
ReverseLoop(S, l, prev, current) ==
    IF current # NULL
    THEN LET nxt == S.next[current]
         IN ReverseLoop([S EXCEPT !.next[current] = prev], l, current, nxt)
    ELSE [S EXCEPT !.head[l] = prev]

ReverseList(S, l) == ReverseLoop(S, l, NULL, S.head[l])

\* unique's loop moving on to the next node after it removed a duplicate
RECURSIVE UniqueLoopAdvances(_, _)
UniqueLoopAdvances(S, current) ==
    IF current # NULL /\ S.next[current] # NULL
    THEN IF S.value[current] = S.value[S.next[current]]
         THEN LET temp == S.next[current]
                  S1 == [S EXCEPT !.next[current] = S.next[temp]]
              IN UniqueLoopAdvances(DestroyNode(S1, temp), S1.next[current])
         ELSE UniqueLoopAdvances(S, S.next[current])
    ELSE S

\* forward_list::unique
RECURSIVE UniqueLoop(_, _)
UniqueLoop(S, current) ==
    IF current # NULL /\ S.next[current] # NULL
    THEN IF S.value[current] = S.value[S.next[current]]
         THEN LET temp == S.next[current]
                  S1 == [S EXCEPT !.next[current] = S.next[temp]]
              IN UniqueLoop(DestroyNode(S1, temp), current)
         ELSE UniqueLoop(S, S.next[current])
    ELSE S

Unique(S, l) == UniqueLoop(S, S.head[l])

\* the value of a value-initialised element, Type()
DefaultValue == 1

\* the argument packs emplace_front is called with: none, one element value,
\* or one node object (an rvalue fwd_list_node)
ValueArg(v) == [kind |-> "value", value |-> v, next |-> NULL]
NodeArg(v) == [kind |-> "node", value |-> v, next |-> NULL]
EmplaceArgs == {<<>>} \cup {<<ValueArg(v)>> : v \in Vals} \cup {<<NodeArg(v)>> : v \in Vals}

\* Type(args...) is well-formed: an element is built from nothing or from a value
TypeConstructible(args) == IF args = <<>> THEN TRUE ELSE args[1].kind = "value"

\* Type(args...)
TypeFrom(args) == IF args = <<>> THEN DefaultValue ELSE args[1].value

\* fwd_list_node(args...) is well-formed: the node has a default constructor
\* and a move constructor and no other
NodeConstructible(args) == IF args = <<>> THEN TRUE ELSE args[1].kind = "node"

\* fwd_list_node(args...): fwd_list_node() or fwd_list_node(fwd_list_node&&)
NodeFrom(args) ==
    IF args = <<>> THEN [value |-> DefaultValue, next |-> NULL]
    ELSE [value |-> args[1].value, next |-> args[1].next]

\* allocator<fwd_list_node>::construct(p, args...), p = &node->value, the
\* node's first member: ::new(p) fwd_list_node(args...)
AllocConstruct(S, n, args) ==
    [S EXCEPT !.constructed = @ \cup {n},
              !.value[n] = NodeFrom(args).value,
              !.next[n] = NodeFrom(args).next]

\* forward_list::emplace_front, for args that fwd_list_node(args...) accepts
EmplaceFront(S, l, args) ==
    LET S1 == AllocateNode(S)
    IN IF S1.threw THEN S1
       ELSE LET new_node == S1.ret
                S2 == AllocConstruct(S1, new_node, args)
            IN [S2 EXCEPT !.next[new_node] = S.head[l], !.head[l] = new_node,
                          !.created = Append(@, new_node)]

\* forward_list::front (the list is not empty)
Front(S, l) == S.value[S.head[l]]

\* forward_list::empty
Empty(S, l) == S.head[l] = NULL

\* forward_list::begin, forward_list::end: an iterator is its node pointer
Begin(S, l) == S.head[l]
End(S, l) == NULL

\* fwd_list_iterator::operator*, operator++, operator==
IterDeref(S, it) == S.value[it]
IterIncrement(S, it) == S.next[it]
IterEqual(it1, it2) == it1 = it2

\* for (it = first; !(it == lst); ++it) yield *it, at most fuel steps
RECURSIVE Iterate(_, _, _, _)
Iterate(S, first, lst, fuel) ==
    IF IterEqual(first, lst) \/ fuel = 0 THEN <<>>
    ELSE <<IterDeref(S, first)>> \o Iterate(S, IterIncrement(S, first), lst, fuel - 1)

\* push_front(vs[1]); ...; push_front(vs[Len(vs)]) on list l
RECURSIVE PushAll(_, _, _)
PushAll(S, l, vs) ==
    IF vs = <<>> \/ S.threw THEN S
    ELSE PushAll(PushFront(S, l, Head(vs)), l, Tail(vs))

\* ------------------------------------------------------------ operations
NoFrame == [this |-> 0, other |-> 0, pos |-> HeadRef(0), spin |-> FALSE,
            preThis |-> <<>>, preOther |-> <<>>,
            preElemsThis |-> <<>>, preElemsOther |-> <<>>]

\* the argument fields of a call record: a value or node, a count, a predicate
NoArg == <<0, 0, {}>>

Commit(S) ==
    /\ head' = S.head
    /\ next' = S.next
    /\ value' = S.value
    /\ allocd' = S.allocd
    /\ constructed' = S.constructed
    /\ fault' = S.fault

\* the record of a completed call: the operation, its arguments, whether it
\* returned normally, the receiver's and the argument's chains on entry, and
\* the nodes it created, destroyed and deallocated, in order
Record(op, l, o, arg, pT, pO, eT, eO, S) ==
    [op |-> op, this |-> l, other |-> o, arg |-> arg[1], cnt |-> arg[2],
     pred |-> arg[3], ok |-> ~S.threw,
     preThis |-> pT, preOther |-> pO, preElemsThis |-> eT, preElemsOther |-> eO,
     created |-> S.created, destroyed |-> S.destroyed,
     deallocated |-> S.deallocated, afterThrow |-> ~last.ok]

\* call records are kept by the specifications that observe single calls
Observing == last.op # "off"

Done(op, l, o, arg, S) ==
    /\ Commit(S)
    /\ last' = IF Observing
               THEN Record(op, l, o, arg, Chain(l), IF o = 0 THEN <<>> ELSE Chain(o),
                           Elems(l), IF o = 0 THEN <<>> ELSE Elems(o), S)
               ELSE last
    /\ UNCHANGED <<pc, frame>>

\* an allocation budget for an operation that makes up to k allocations:
\* the allocation that fails (0 = the first), or none
Budgets(k) == (0..(k - 1)) \cup {NoFail}

NoCall(op) ==
    [op |-> op, this |-> 0, other |-> 0, arg |-> 0, cnt |-> 0, pred |-> {},
     ok |-> TRUE, preThis |-> <<>>, preOther |-> <<>>, preElemsThis |-> <<>>,
     preElemsOther |-> <<>>, created |-> <<>>, destroyed |-> <<>>,
     deallocated |-> <<>>, afterThrow |-> FALSE]

\* no list object exists yet and the heap is untouched
Init ==
    /\ alive = [l \in Lists |-> FALSE]
    /\ head = [l \in Lists |-> NULL]
    /\ next = [n \in Nodes |-> NULL]
    /\ value = [n \in Nodes |-> NoValue]
    /\ allocd = {}
    /\ constructed = {}
    /\ fault = FALSE
    /\ pc = "idle"
    /\ frame = NoFrame
    /\ last = NoCall("off")
    /\ npush = 0
    /\ npop = 0

SeqsUpTo(n) == UNION {[1..k -> Vals] : k \in 0..n}

\* list 1 exists and iterates a; list 2 iterates b and exists if e; their nodes
\* are 1..Len(a) and Len(a)+1..Len(a)+Len(b), in chain order
TwoLists(a, b, e) ==
    LET na == Len(a)
        nb == Len(b)
    IN /\ alive = [l \in Lists |-> l = 1 \/ (l = 2 /\ e)]
       /\ head = [l \in Lists |->
                    IF l = 1 /\ na > 0 THEN 1
                    ELSE IF l = 2 /\ nb > 0 THEN na + 1
                    ELSE NULL]
       /\ next = [n \in Nodes |->
                    IF n < na \/ (na < n /\ n < na + nb) THEN n + 1 ELSE NULL]
       /\ value = [n \in Nodes |->
                     IF n <= na THEN a[n]
                     ELSE IF n <= na + nb THEN b[n - na]
                     ELSE NoValue]
       /\ allocd = 1..(na + nb)
       /\ constructed = 1..(na + nb)
       /\ fault = FALSE
       /\ pc = "idle"
       /\ frame = NoFrame
       /\ last = NoCall("none")
       /\ npush = 0
       /\ npop = 0

\* two existing lists with any contents that fit the heap
InitTwoLists ==
    \E a, b \in SeqsUpTo(MaxNodes) : Len(a) + Len(b) <= MaxNodes /\ TwoLists(a, b, TRUE)

\* as InitTwoLists, or list 1 alone with list 2 not constructed
InitOneOrTwoLists ==
    \/ InitTwoLists
    \/ \E a \in SeqsUpTo(MaxNodes) : TwoLists(a, <<>>, FALSE)

\* one existing, empty list
InitEmptyList ==
    /\ TwoLists(<<>>, <<>>, TRUE)

Idle(l) == pc = "idle" /\ alive[l]

\* forward_list::forward_list(const Allocator&)
DefaultConstructStep(l) ==
    /\ pc = "idle" /\ ~alive[l]
    /\ alive' = [alive EXCEPT ![l] = TRUE]
    /\ Done("construct", l, 0, NoArg, [Store(NoFail) EXCEPT !.head[l] = NULL])

\* forward_list::forward_list(const forward_list&); when push_front throws the
\* constructed base subobject is destroyed, which clears the partial chain
CopyConstructStep(l, o, b) ==
    /\ pc = "idle" /\ ~alive[l] /\ alive[o]
    /\ LET S0 == [Store(b) EXCEPT !.head[l] = NULL]
           S1 == CopyLoop(S0, l, S0.head[o])
       IN IF S1.threw
          THEN /\ UNCHANGED alive
               /\ Done("copy_construct", l, o, NoArg, Clear(S1, l))
          ELSE /\ alive' = [alive EXCEPT ![l] = TRUE]
               /\ Done("copy_construct", l, o, NoArg, S1)

\* forward_list::forward_list(forward_list&&)
MoveConstructStep(l, o) ==
    /\ pc = "idle" /\ ~alive[l] /\ alive[o]
    /\ alive' = [alive EXCEPT ![l] = TRUE]
    /\ Done("move_construct", l, o, NoArg, MoveConstruct(Store(NoFail), l, o))

\* forward_list::~forward_list, forward_list_base::~forward_list_base
DestructStep(l) ==
    /\ Idle(l)
    /\ alive' = [alive EXCEPT ![l] = FALSE]
    /\ Done("destruct", l, 0, NoArg, Clear(Store(NoFail), l))

CopyAssignStep(l, o, b) ==
    /\ Idle(l) /\ alive[o]
    /\ UNCHANGED alive
    /\ Done("copy_assign", l, o, NoArg, CopyAssign(Store(b), l, o))

MoveAssignStep(l, o) ==
    /\ Idle(l) /\ alive[o]
    /\ UNCHANGED alive
    /\ Done("move_assign", l, o, NoArg, MoveAssign(Store(NoFail), l, o))

ClearStep(l) ==
    /\ Idle(l)
    /\ UNCHANGED alive
    /\ Done("clear", l, 0, NoArg, Clear(Store(NoFail), l))

PushFrontStep(l, v, b) ==
    /\ Idle(l)
    /\ UNCHANGED alive
    /\ Done("push_front", l, 0, <<v, 0, {}>>, PushFront(Store(b), l, v))

\* forward_list::emplace_front: a call whose arguments fwd_list_node(args...)
\* does not accept is rejected at compile time and is no step of any program
EmplaceFrontStep(l, args, b) ==
    /\ Idle(l)
    /\ NodeConstructible(args)
    /\ UNCHANGED alive
    /\ Done("emplace_front", l, 0, <<NodeFrom(args).value, 0, {}>>,
            EmplaceFront(Store(b), l, args))

PopFrontStep(l) ==
    /\ Idle(l)
    /\ UNCHANGED alive
    /\ Done("pop_front", l, 0, NoArg, PopFront(Store(NoFail), l))

AssignStep(l, count, v, b) ==
    /\ Idle(l)
    /\ UNCHANGED alive
    /\ Done("assign", l, 0, <<v, count, {}>>, Assign(Store(b), l, count, v))

ResizeStep(l, count, v, b) ==
    /\ Idle(l)
    /\ UNCHANGED alive
    /\ Done("resize", l, 0, <<v, count, {}>>, Resize(Store(b), l, count, v))

SwapStep(l, o) ==
    /\ Idle(l) /\ alive[o]
    /\ UNCHANGED alive
    /\ Done("swap", l, o, NoArg, Swap(Store(NoFail), l, o))

\* forward_list::merge, entry: Node** pos = &this->head
MergeBeginStep(l, o) ==
    /\ Idle(l) /\ alive[o]
    /\ pc' = "merge"
    /\ frame' = [this |-> l, other |-> o, pos |-> HeadRef(l), spin |-> FALSE,
                 preThis |-> Chain(l), preOther |-> Chain(o),
                 preElemsThis |-> Elems(l), preElemsOther |-> Elems(o)]
    /\ UNCHANGED <<hvars, last>>

\* forward_list::merge, one iteration of the loop; spin records that the
\* iteration reproduced the loop state it started from
MergeLoopStep ==
    /\ pc = "merge"
    /\ MergeCond(Store(NoFail), frame.pos, frame.other)
    /\ LET r == MergeIter(Store(NoFail), frame.pos, frame.other)
       IN /\ Commit(r.st)
          /\ frame' = [frame EXCEPT !.pos = r.pos,
                                    !.spin = (r.st = Store(NoFail) /\ r.pos = frame.pos)]
    /\ UNCHANGED <<alive, pc, last>>

\* forward_list::merge, loop exit and the statements after it
MergeEndStep ==
    /\ pc = "merge"
    /\ ~MergeCond(Store(NoFail), frame.pos, frame.other)
    /\ LET S == MergeTail(Store(NoFail), frame.pos, frame.other)
       IN /\ Commit(S)
          /\ last' = IF Observing
                     THEN Record("merge", frame.this, frame.other, NoArg, frame.preThis,
                                 frame.preOther, frame.preElemsThis,
                                 frame.preElemsOther, S)
                     ELSE last
    /\ pc' = "idle"
    /\ frame' = NoFrame
    /\ UNCHANGED alive

\* forward_list::splice_after, pos a handle to a node of the receiver
SpliceAfterStep(l, p, o) ==
    /\ Idle(l) /\ alive[o]
    /\ p \in Range(Chain(l))
    /\ UNCHANGED alive
    /\ Done("splice_after", l, o, <<p, 0, {}>>, SpliceAfter(Store(NoFail), p, o))

RemoveStep(l, v) ==
    /\ Idle(l)
    /\ UNCHANGED alive
    /\ Done("remove", l, 0, <<v, 0, {}>>, Remove(Store(NoFail), l, v))

RemoveIfStep(l, pred) ==
    /\ Idle(l)
    /\ UNCHANGED alive
    /\ Done("remove_if", l, 0, <<0, 0, pred>>, RemoveIf(Store(NoFail), l, pred))

ReverseStep(l) ==
    /\ Idle(l)
    /\ UNCHANGED alive
    /\ Done("reverse", l, 0, NoArg, ReverseList(Store(NoFail), l))

UniqueStep(l) ==
    /\ Idle(l)
    /\ UNCHANGED alive
    /\ Done("unique", l, 0, NoArg, Unique(Store(NoFail), l))

\* ------------------------------------------------------- specifications
Counters == UNCHANGED <<npush, npop>>

DefaultConstruct == \E l \in Lists : DefaultConstructStep(l) /\ Counters
CopyConstruct ==
    \E l, o \in Lists : \E b \in Budgets(MaxNodes) : CopyConstructStep(l, o, b) /\ Counters
MoveConstructor == \E l, o \in Lists : MoveConstructStep(l, o) /\ Counters
Destruct == \E l \in Lists : DestructStep(l) /\ Counters
CopyAssignment ==
    \E l, o \in Lists : \E b \in Budgets(MaxNodes) : CopyAssignStep(l, o, b) /\ Counters
MoveAssignment == \E l, o \in Lists : MoveAssignStep(l, o) /\ Counters
ClearList == \E l \in Lists : ClearStep(l) /\ Counters
PushFrontCall ==
    \E l \in Lists, v \in Vals : \E b \in Budgets(1) : PushFrontStep(l, v, b) /\ Counters
EmplaceFrontCall ==
    \E l \in Lists, args \in EmplaceArgs :
        \E b \in Budgets(1) : EmplaceFrontStep(l, args, b) /\ Counters
PopFrontCall == \E l \in Lists : PopFrontStep(l) /\ Counters
AssignCall ==
    \E l \in Lists, c \in 0..MaxCount, v \in Vals :
        \E b \in Budgets(c) : AssignStep(l, c, v, b) /\ Counters
ResizeCall ==
    \E l \in Lists, c \in 0..MaxCount, v \in Vals :
        \E b \in Budgets(c) : ResizeStep(l, c, v, b) /\ Counters
SwapCall == \E l, o \in Lists : SwapStep(l, o) /\ Counters
MergeBegin == \E l, o \in Lists : MergeBeginStep(l, o) /\ Counters
MergeLoop == MergeLoopStep /\ Counters
MergeEnd == MergeEndStep /\ Counters
SpliceAfterCall ==
    \E l, o \in Lists : \E p \in Nodes : SpliceAfterStep(l, p, o) /\ Counters
RemoveCall == \E l \in Lists, v \in Vals : RemoveStep(l, v) /\ Counters
RemoveIfCall == \E l \in Lists : \E pred \in SUBSET Vals : RemoveIfStep(l, pred) /\ Counters
ReverseCall == \E l \in Lists : ReverseStep(l) /\ Counters
UniqueCall == \E l \in Lists : UniqueStep(l) /\ Counters

\* every public operation on every list object, calls not recorded
Next ==
    \/ DefaultConstruct
    \/ CopyConstruct
    \/ MoveConstructor
    \/ Destruct
    \/ CopyAssignment
    \/ MoveAssignment
    \/ ClearList
    \/ PushFrontCall
    \/ EmplaceFrontCall
    \/ PopFrontCall
    \/ AssignCall
    \/ ResizeCall
    \/ SwapCall
    \/ MergeBegin
    \/ MergeLoop
    \/ MergeEnd
    \/ SpliceAfterCall
    \/ RemoveCall
    \/ RemoveIfCall
    \/ ReverseCall
    \/ UniqueCall

Spec == Init /\ [][Next]_vars

\* merge applied to two lists of any contents, the receiver and the argument
\* chosen freely (the same list included)
MergeNext == MergeBegin \/ MergeLoop \/ MergeEnd

MergeSpec == InitTwoLists /\ [][MergeNext]_vars

\* push_front and pop_front on list 1, initially empty, with the calls counted:
\* npush counts the push_front calls that returned, npop the pop_front calls
\* that found the list non-empty
PushFrontCounted ==
    \E v \in Vals : \E b \in Budgets(1) :
        /\ npush + npop < MaxCalls
        /\ PushFrontStep(1, v, b)
        /\ npush' = IF PushFront(Store(b), 1, v).threw THEN npush ELSE npush + 1
        /\ UNCHANGED npop

PopFrontCounted ==
    /\ npush + npop < MaxCalls
    /\ PopFrontStep(1)
    /\ npop' = IF head[1] # NULL THEN npop + 1 ELSE npop
    /\ UNCHANGED npush

PushPopNext == PushFrontCounted \/ PopFrontCounted

PushPopSpec == InitEmptyList /\ [][PushPopNext]_vars

\* splice_after applied to two lists of any contents, with any handle into the
\* receiver and any list as other (the receiver included)
SpliceNext == SpliceAfterCall

SpliceSpec == InitTwoLists /\ [][SpliceNext]_vars

\* one copy construction or copy assignment, between lists of any contents
FirstCall == last.op = "none"

CopyConstructOnce == FirstCall /\ CopyConstruct

CopyAssignOnce == FirstCall /\ CopyAssignment

CopyNext == CopyConstructOnce \/ CopyAssignOnce

CopySpec == InitOneOrTwoLists /\ [][CopyNext]_vars

\* lists of any contents whose chains are moved, swapped, merged and spliced
\* between list objects, cleared and destroyed
LifeNext ==
    \/ DefaultConstruct
    \/ MoveConstructor
    \/ MoveAssignment
    \/ SwapCall
    \/ MergeBegin
    \/ MergeLoop
    \/ MergeEnd
    \/ SpliceAfterCall
    \/ ClearList
    \/ Destruct

LifeSpec == InitOneOrTwoLists /\ [][LifeNext]_vars

\* remove, remove_if, reverse and unique applied in any order to two lists of
\* any contents
EditNext == RemoveCall \/ RemoveIfCall \/ ReverseCall \/ UniqueCall

EditSpec == InitTwoLists /\ [][EditNext]_vars

\* one call of any public operation, on lists of any contents (merge runs
\* through its loop to its end, or for ever)
OneCallNext ==
    \/ FirstCall /\ DefaultConstruct
    \/ FirstCall /\ CopyConstruct
    \/ FirstCall /\ MoveConstructor
    \/ FirstCall /\ Destruct
    \/ FirstCall /\ CopyAssignment
    \/ FirstCall /\ MoveAssignment
    \/ FirstCall /\ ClearList
    \/ FirstCall /\ PushFrontCall
    \/ FirstCall /\ EmplaceFrontCall
    \/ FirstCall /\ PopFrontCall
    \/ FirstCall /\ AssignCall
    \/ FirstCall /\ ResizeCall
    \/ FirstCall /\ SwapCall
    \/ FirstCall /\ MergeBegin
    \/ FirstCall /\ MergeLoop
    \/ FirstCall /\ MergeEnd
    \/ FirstCall /\ SpliceAfterCall
    \/ FirstCall /\ RemoveCall
    \/ FirstCall /\ RemoveIfCall
    \/ FirstCall /\ ReverseCall
    \/ FirstCall /\ UniqueCall

OneCallSpec == InitOneOrTwoLists /\ [][OneCallNext]_vars

\* one emplace_front or push_front on lists of any contents
EmplaceFrontOnce == FirstCall /\ EmplaceFrontCall

PushFrontOnce == FirstCall /\ PushFrontCall

EmplaceNext == EmplaceFrontOnce \/ PushFrontOnce

EmplaceSpec == InitTwoLists /\ [][EmplaceNext]_vars

\* lists 1 and 2 as in TwoLists(a, b, e), and after their nodes the chain of a
\* third list object that iterates c and that no call names
ListsAndBystander(a, b, c, e) ==
    LET na == Len(a)
        nb == Len(b)
        nc == Len(c)
    IN /\ alive = [l \in Lists |-> l = 1 \/ (l = 2 /\ e)]
       /\ head = [l \in Lists |->
                    IF l = 1 /\ na > 0 THEN 1
                    ELSE IF l = 2 /\ nb > 0 THEN na + 1
                    ELSE NULL]
       /\ next = [n \in Nodes |->
                    IF n < na \/ (na < n /\ n < na + nb)
                       \/ (na + nb < n /\ n < na + nb + nc)
                    THEN n + 1 ELSE NULL]
       /\ value = [n \in Nodes |->
                     IF n <= na THEN a[n]
                     ELSE IF n <= na + nb THEN b[n - na]
                     ELSE IF n <= na + nb + nc THEN c[n - na - nb]
                     ELSE NoValue]
       /\ allocd = 1..(na + nb + nc)
       /\ constructed = 1..(na + nb + nc)
       /\ fault = FALSE
       /\ pc = "idle"
       /\ frame = NoFrame
       /\ last = NoCall("none")
       /\ npush = 0
       /\ npop = 0

InitBystander ==
    \E a, b, c \in SeqsUpTo(MaxNodes) : \E e \in BOOLEAN :
        /\ Len(a) + Len(b) + Len(c) <= MaxNodes
        /\ e \/ b = <<>>
        /\ ListsAndBystander(a, b, c, e)

\* one call of any public operation while a third list exists
FrameSpec == InitBystander /\ [][OneCallNext]_vars

\* ----------------------------------------------------------------- claims
\* the nodes reachable from the head of list l
Owned(l) == Range(Chain(l))

\* allocated nodes that no head reaches
Unreachable == allocd \ UNION {Owned(l) : l \in Lists}

\* C1: between operations, after any sequence of the public operations on any
\* lists (splice_after with a handle into the receiver and any list as other),
\* every list's chain is acyclic and ends in a null link, and no node is
\* reachable from the heads of two different lists.
C1_ChainsWellFormed ==
    pc = "idle" =>
        /\ \A l \in Lists :
              /\ ReachesNull(next, head[l], MaxNodes)
              /\ NoDup(Chain(l))
        /\ \A l1, l2 \in Lists : l1 # l2 => Owned(l1) \cap Owned(l2) = {}

\* two non-empty lists, one of at least two nodes, after a splice_after of a
\* list into itself has detached a chain from every head
C1_Witness ==
    /\ pc = "idle"
    /\ Unreachable # {}
    /\ \E l1, l2 \in Lists :
          /\ l1 # l2 /\ alive[l1] /\ alive[l2]
          /\ Len(Chain(l1)) >= 2 /\ Len(Chain(l2)) >= 1

\* C2: for every sequence of push_front and pop_front calls on an initially
\* empty list, the number of nodes in the chain is the number of push_front
\* calls (that returned) minus the number of pop_front calls made on a
\* non-empty list, never negative; pop_front on an empty list leaves the list
\* empty and creates, destroys and deallocates nothing.
C2_LengthIsPushesMinusPops ==
    /\ ReachesNull(next, head[1], MaxNodes)
    /\ Len(Chain(1)) = npush - npop
    /\ npush >= npop
    /\ (last.op = "pop_front" /\ last.preThis = <<>>) =>
          /\ head[1] = NULL
          /\ last.created = <<>> /\ last.destroyed = <<>> /\ last.deallocated = <<>>
          /\ Cardinality(allocd) = npush - npop

\* pop_front was called on a list emptied by pops after two pushes
C2_Witness ==
    /\ npush >= 2 /\ npop = npush
    /\ last.op = "pop_front" /\ last.preThis = <<>>

\* a merge of two distinct lists, both sorted ascending on entry, has returned
SortedMergeDone ==
    /\ pc = "idle" /\ last.op = "merge" /\ last.this # last.other
    /\ Sorted(last.preElemsThis) /\ Sorted(last.preElemsOther)

\* the position of node n in the chain of list l
PosIn(l, n) == CHOOSE i \in 1..Len(Chain(l)) : Chain(l)[i] = n

\* C3: after receiver.merge(other) on two distinct lists that are both sorted
\* ascending, the receiver iterates the multiset union of the two original
\* sequences in non-decreasing order, over the original nodes, and other is
\* empty.
C3_MergeSortedUnion ==
    SortedMergeDone =>
        /\ ReachesNull(next, head[last.this], MaxNodes)
        /\ Sorted(Elems(last.this))
        /\ Len(Chain(last.this)) = Len(last.preThis) + Len(last.preOther)
        /\ Owned(last.this) = Range(last.preThis) \cup Range(last.preOther)
        /\ \A v \in Vals :
              CountOf(Elems(last.this), v) =
                  CountOf(last.preElemsThis, v) + CountOf(last.preElemsOther, v)
        /\ head[last.other] = NULL

\* [1,2] merged with [1,2]: both inputs non-empty, interleaved, with ties
C3_Witness ==
    /\ SortedMergeDone
    /\ last.preElemsThis = <<1, 2>> /\ last.preElemsOther = <<1, 2>>

\* C4 as claimed: in a merge of two sorted lists, among nodes with equal keys
\* the node that came from the receiver precedes the node that came from the
\* argument list.
C4_ReceiverFirstOnTies ==
    SortedMergeDone =>
        \A r \in Range(last.preThis), a \in Range(last.preOther) :
            value[r] = value[a] => PosIn(last.this, r) < PosIn(last.this, a)

\* C4 as amended: in a merge of two sorted lists, among nodes with equal keys
\* every node that came from the argument list precedes every node that came
\* from the receiver.
C4_ArgumentFirstOnTies ==
    SortedMergeDone =>
        \A r \in Range(last.preThis), a \in Range(last.preOther) :
            value[r] = value[a] => PosIn(last.this, a) < PosIn(last.this, r)

\* [1,1,2] merged with [1]: the argument's 1 meets two equal receiver nodes
C4_Witness ==
    /\ SortedMergeDone
    /\ last.preElemsThis = <<1, 1, 2>> /\ last.preElemsOther = <<1>>

\* the chain A.splice_after(pos, B) is to produce: A up to and including pos,
\* then B, then the rest of A
Spliced(a, p, b) ==
    LET k == CHOOSE i \in 1..Len(a) : a[i] = p
    IN SubSeq(a, 1, k) \o b \o SubSeq(a, k + 1, Len(a))

\* C5: after A.splice_after(pos, B), pos a handle to a node of A and B any
\* list, A iterates its elements up to pos's node, then B's elements in B's
\* order, then the rest of A; B is empty; no node is created or destroyed;
\* with B empty, A is unchanged.
C5_SpliceAfterResult ==
    (pc = "idle" /\ last.op = "splice_after") =>
        /\ Chain(last.this) = Spliced(last.preThis, last.arg, last.preOther)
        /\ last.preOther # <<>> => head[last.other] = NULL
        /\ last.created = <<>> /\ last.destroyed = <<>> /\ last.deallocated = <<>>
        /\ last.preOther = <<>> => Chain(last.this) = last.preThis

\* a copy construction, or a copy assignment from another list, has returned
CopyDone ==
    /\ pc = "idle" /\ last.ok /\ last.this # last.other
    /\ last.op \in {"copy_construct", "copy_assign"}

\* C6: copy construction and copy assignment from a source iterating
\* [x1,...,xn] produce a list that iterates [xn,...,x1], made of the nodes the
\* call created, none shared with the source; the source's chain and values
\* are unchanged; copy assignment destroys and deallocates every node the
\* receiver held before.
C6_CopyReverses ==
    CopyDone =>
        /\ ReachesNull(next, head[last.this], MaxNodes)
        /\ Elems(last.this) = Reverse(last.preElemsOther)
        /\ Chain(last.this) = Reverse(last.created)
        /\ Len(last.created) = Len(last.preOther)
        /\ Owned(last.this) \cap Owned(last.other) = {}
        /\ Owned(last.this) \subseteq allocd \cap constructed
        /\ Chain(last.other) = last.preOther
        /\ Elems(last.other) = last.preElemsOther
        /\ last.destroyed = last.preThis
        /\ last.deallocated = last.preThis
        /\ fault = FALSE

\* a list holding one node was copy-assigned from a list iterating [1,2]
C6_Witness ==
    /\ CopyDone /\ last.op = "copy_assign"
    /\ last.preElemsOther = <<1, 2>>
    /\ Len(last.preThis) >= 1

\* C7: destroying a list, or clearing it, whose chain has n nodes, however the
\* chain was put together by moves, swaps, merges and splices, destroys the
\* value of each node of the chain once and deallocates each node once, n of
\* each and none for an empty list, and leaves the list empty; in the whole
\* run no node is destroyed or deallocated while it is not live.
C7_DestroyOncePerNode ==
    /\ fault = FALSE
    /\ (pc = "idle" /\ last.op \in {"clear", "destruct"}) =>
          /\ last.destroyed = last.preThis
          /\ last.deallocated = last.preThis
          /\ NoDup(last.destroyed)
          /\ Len(last.destroyed) = Len(last.preThis)
          /\ last.created = <<>>
          /\ head[last.this] = NULL
          /\ Range(last.preThis) \cap (allocd \cup constructed) = {}

\* the last existing list is destroyed holding three or more nodes that a merge
\* or splice put in an order no single drawn list has
C7_Witness ==
    /\ pc = "idle" /\ last.op = "destruct"
    /\ Len(last.preThis) >= 3
    /\ ~Sorted(last.preThis)
    /\ \A l \in Lists : ~alive[l]

\* C8 as claimed: between operations, every node that is allocated or holds a
\* constructed value is reachable from the head of an existing list, and once
\* no list exists no node remains.
C8_NoLeak ==
    pc = "idle" =>
        /\ allocd \cup constructed \subseteq UNION {Owned(l) : l \in {k \in Lists : alive[k]}}
        /\ (\A l \in Lists : ~alive[l]) => allocd \cup constructed = {}

\* C9 as claimed, for merge: the loop of a running merge makes progress, that
\* is, no iteration ends in the loop state it started from with the loop
\* condition still true (the code is deterministic: from there it never ends).
C9_MergeLoopProgresses ==
    pc = "merge" => ~frame.spin

\* C10: when the allocation of push_front fails, the call throws and the list
\* has the head, chain and values it had, no node was created and every
\* allocated node is in the chain; a push_front that succeeds after a failed
\* call links exactly one new node, holding the pushed value, in front of the
\* unchanged old chain.
C10_PushFrontFailureIsClean ==
    (pc = "idle" /\ last.op = "push_front") =>
        /\ ReachesNull(next, head[last.this], MaxNodes)
        /\ allocd = Owned(last.this)
        /\ constructed = allocd
        /\ ~last.ok =>
              /\ Chain(last.this) = last.preThis
              /\ Elems(last.this) = last.preElemsThis
              /\ last.created = <<>>
        /\ (last.ok /\ last.afterThrow) =>
              /\ Len(last.created) = 1
              /\ Chain(last.this) = last.created \o last.preThis
              /\ Elems(last.this) = <<last.arg>> \o last.preElemsThis
        /\ last.destroyed = <<>> /\ last.deallocated = <<>>

\* a push_front on a non-empty list succeeded right after a call that threw
C10_Witness ==
    /\ pc = "idle" /\ last.op = "push_front" /\ last.ok /\ last.afterThrow
    /\ Len(last.preThis) >= 1

\* the entries of ns whose value in es is not in rm, in order
RECURSIVE Kept(_, _, _)
Kept(ns, es, rm) ==
    IF ns = <<>> THEN <<>>
    ELSE (IF Head(es) \in rm THEN <<>> ELSE <<Head(ns)>>) \o Kept(Tail(ns), Tail(es), rm)

\* C11: remove(value) and remove_if(pred) destroy exactly the nodes whose value
\* matches, wherever they are in the chain (head, consecutive, tail): the
\* surviving nodes are the same nodes with the same values in the same relative
\* order, the matching nodes are each destroyed and deallocated once, nothing
\* is created, and the length drops by the number of matches.
C11_RemoveExactlyMatches ==
    (pc = "idle" /\ last.op \in {"remove", "remove_if"}) =>
        LET l == last.this
            rm == IF last.op = "remove" THEN {last.arg} ELSE last.pred
            matches == Kept(last.preThis, last.preElemsThis, Vals \ rm)
        IN /\ Chain(l) = Kept(last.preThis, last.preElemsThis, rm)
           /\ Elems(l) = Kept(last.preElemsThis, last.preElemsThis, rm)
           /\ last.destroyed = matches
           /\ last.deallocated = matches
           /\ last.created = <<>>
           /\ Len(Chain(l)) = Len(last.preThis) - Len(matches)
           /\ allocd \cap Range(matches) = {}
           /\ ~fault

\* remove(1) on [1, 1, 2, 1]: matches at the head, consecutive, and at the tail
C11_Witness ==
    /\ last.op = "remove" /\ last.arg = 1
    /\ last.preElemsThis = <<1, 1, 2, 1>>
    /\ Elems(last.this) = <<2>>
    /\ Len(last.destroyed) = 3

\* the entries of chain c that belong to the set ns, in chain order
KeptNodes(c, ns) == SelectSeq(c, LAMBDA n : n \in ns)

\* C12: merge is stable: in the merged chain of two sorted lists the nodes that
\* came from the receiver keep their original relative order, and the nodes
\* that came from the argument list keep their original relative order among
\* themselves, nodes of equal key included.
C12_MergeStable ==
    SortedMergeDone =>
        /\ KeptNodes(Chain(last.this), Range(last.preThis)) = last.preThis
        /\ KeptNodes(Chain(last.this), Range(last.preOther)) = last.preOther

\* C13: reverse() turns a list iterating [x1,...,xn] into one iterating
\* [xn,...,x1] over the same nodes, creating and destroying none; on an empty
\* list it changes nothing; and reversing once more brings back the node
\* order the list had before, for every list.
C13_ReverseReverses ==
    (pc = "idle" /\ last.op = "reverse") =>
        LET l == last.this
            S2 == ReverseList(Store(NoFail), l)
        IN /\ Chain(l) = Reverse(last.preThis)
           /\ Elems(l) = Reverse(last.preElemsThis)
           /\ last.created = <<>> /\ last.destroyed = <<>> /\ last.deallocated = <<>>
           /\ last.preThis = <<>> => head[l] = NULL
           /\ ChainFrom(S2.next, S2.head[l], MaxNodes) = last.preThis
           /\ S2.value = value /\ S2.allocd = allocd /\ S2.constructed = constructed
           /\ \A k \in Lists :
                 LET S3 == ReverseList(ReverseList(Store(NoFail), k), k)
                 IN S3.head = head /\ S3.next = next /\ S3.value = value

\* reverse of a list of three nodes holding 1, 2, 2
C13_Witness ==
    /\ last.op = "reverse"
    /\ last.preElemsThis = <<1, 2, 2>>
    /\ Elems(last.this) = <<2, 2, 1>>
    /\ Chain(last.this) = Reverse(last.preThis)

\* index i starts a maximal run of equal adjacent values of es
FirstOfRun(es, i) == i = 1 \/ es[i] # es[i - 1]

\* the entries of ns whose index satisfies Test
Picked(ns, Test(_)) ==
    LET kept == SelectSeq([i \in 1..Len(ns) |-> i], Test)
    IN [k \in 1..Len(kept) |-> ns[kept[k]]]

\* C14: unique() removes exactly the nodes whose value equals the value of
\* their immediate predecessor in the original chain and keeps the first node
\* of every maximal run; equal values that are not adjacent are kept;
\* afterwards no two adjacent nodes hold equal values, and a second unique()
\* changes nothing.
C14_UniqueKeepsRunHeads ==
    (pc = "idle" /\ last.op = "unique") =>
        LET l == last.this
            es == last.preElemsThis
            dups == Picked(last.preThis, LAMBDA i : ~FirstOfRun(es, i))
            S2 == Unique(Store(NoFail), l)
        IN /\ Chain(l) = Picked(last.preThis, LAMBDA i : FirstOfRun(es, i))
           /\ Elems(l) = Picked(es, LAMBDA i : FirstOfRun(es, i))
           /\ last.destroyed = dups /\ last.deallocated = dups
           /\ last.created = <<>>
           /\ \A i \in 1..(Len(Elems(l)) - 1) : Elems(l)[i] # Elems(l)[i + 1]
           /\ S2.head = head /\ S2.next = next /\ S2.value = value
           /\ S2.destroyed = <<>> /\ S2.allocd = allocd
           /\ ~fault

\* unique on [1, 1, 2, 1]: a run is cut to its first node, the later 1 stays
C14_Witness ==
    /\ last.op = "unique"
    /\ last.preElemsThis = <<1, 1, 2, 1>>
    /\ Elems(last.this) = <<1, 2, 1>>
    /\ Len(last.destroyed) = 1

\* C15: a resize(count, v) that returns leaves a list of length L with exactly
\* count nodes: for L > count the first L - count nodes are destroyed and the
\* last count original nodes remain in order; for L < count the list iterates
\* count - L copies of v followed by the original nodes in order; for
\* L = count nothing changes.
C15_ResizeResult ==
    (pc = "idle" /\ last.op = "resize" /\ last.ok) =>
        LET l == last.this
            L == Len(last.preThis)
            c == last.cnt
        IN /\ Len(Chain(l)) = c
           /\ L > c =>
                 /\ Chain(l) = SubSeq(last.preThis, L - c + 1, L)
                 /\ Elems(l) = SubSeq(last.preElemsThis, L - c + 1, L)
                 /\ last.destroyed = SubSeq(last.preThis, 1, L - c)
                 /\ last.deallocated = last.destroyed
                 /\ last.created = <<>>
           /\ L < c =>
                 /\ Elems(l) = [i \in 1..(c - L) |-> last.arg] \o last.preElemsThis
                 /\ SubSeq(Chain(l), c - L + 1, c) = last.preThis
                 /\ Len(last.created) = c - L
                 /\ last.destroyed = <<>>
           /\ L = c =>
                 /\ Chain(l) = last.preThis
                 /\ Elems(l) = last.preElemsThis
                 /\ last.created = <<>> /\ last.destroyed = <<>>
           /\ ~fault

\* resize(2, v) on [1, 1, 2]: the front node goes, [1, 2] stays
C15_Witness ==
    /\ last.op = "resize" /\ last.ok /\ last.cnt = 2
    /\ last.preElemsThis = <<1, 1, 2>>
    /\ Elems(last.this) = <<1, 2>>
    /\ last.destroyed = <<Head(last.preThis)>>

\* what iterating list l from begin() to end() yields
Iterated(S, l) == Iterate(S, Begin(S, l), End(S, l), MaxNodes)

\* C16: after push_front calls with values v1,...,vk that all return, front()
\* is vk and iterating from begin() to end() yields vk,...,v1 followed by the
\* elements the list held before; begin() == end() exactly when the list is
\* empty, and empty() is true exactly when the chain has no node.
C16_PushFrontOrder ==
    pc = "idle" =>
        /\ \A l \in Lists :
              /\ IterEqual(Begin(Store(NoFail), l), End(Store(NoFail), l)) <=> Owned(l) = {}
              /\ Empty(Store(NoFail), l) <=> Owned(l) = {}
              /\ Iterated(Store(NoFail), l) = Elems(l)
        /\ (last.op = "push_front" /\ last.ok) =>
              /\ Front(Store(NoFail), last.this) = last.arg
              /\ Iterated(Store(NoFail), last.this) = <<last.arg>> \o last.preElemsThis
              /\ Tail(Chain(last.this)) = last.preThis
              /\ ~Empty(Store(NoFail), last.this)
        /\ \A l \in {k \in Lists : alive[k]} :
              \A vs \in SeqsUpTo(Cardinality(Nodes \ allocd)) \ {<<>>} :
                  LET S == PushAll(Store(NoFail), l, vs)
                  IN /\ ~S.threw
                     /\ Front(S, l) = vs[Len(vs)]
                     /\ Iterated(S, l) = Reverse(vs) \o Elems(l)
                     /\ ~IterEqual(Begin(S, l), End(S, l))

\* push_front(2) on a list holding [1, 2], with room for more pushes
C16_Witness ==
    /\ last.op = "push_front" /\ last.ok /\ last.arg = 2
    /\ last.preElemsThis = <<1, 2>>
    /\ Iterated(Store(NoFail), last.this) = <<2, 1, 2>>
    /\ Front(Store(NoFail), last.this) = 2
    /\ Nodes \ allocd # {}

\* C17: move construction and move assignment transfer ownership: the
\* receiver's chain is the source's former chain (same nodes, same order, same
\* values), the source's head is null, no node is created or owned twice, move
\* assignment destroys every node the receiver held before exactly once, and
\* move-assigning a list to itself leaves it unchanged.
C17_MoveTransfers ==
    (pc = "idle" /\ last.op \in {"move_construct", "move_assign"}) =>
        LET l == last.this
            o == last.other
        IN /\ l # o =>
                 /\ Chain(l) = last.preOther
                 /\ Elems(l) = last.preElemsOther
                 /\ head[o] = NULL
                 /\ NoDup(Chain(l))
                 /\ last.created = <<>>
                 /\ last.destroyed = (IF last.op = "move_assign" THEN last.preThis ELSE <<>>)
                 /\ last.deallocated = last.destroyed
                 /\ allocd \cap Range(last.destroyed) = {}
                 /\ Owned(l) \subseteq allocd \cap constructed
                 /\ \A k \in Lists \ {l} : Owned(k) \cap Owned(l) = {}
           /\ l = o =>
                 /\ Chain(l) = last.preThis
                 /\ Elems(l) = last.preElemsThis
                 /\ last.created = <<>> /\ last.destroyed = <<>>
           /\ ~fault

\* a list of two nodes move-assigned from another list of two nodes
C17_Witness ==
    /\ last.op = "move_assign" /\ last.this # last.other
    /\ Len(last.preThis) = 2 /\ Len(last.preOther) = 2
    /\ Chain(last.this) = last.preOther
    /\ head[last.other] = NULL
    /\ last.destroyed = last.preThis

\* the last call was a copy construction, copy assignment, assign or resize
\* that an allocation failure ended
MultiNodeCallFailed ==
    /\ pc = "idle"
    /\ last.op \in {"copy_construct", "copy_assign", "assign", "resize"}
    /\ ~last.ok

\* C18: when an allocation fails part-way through copy construction, copy
\* assignment, assign or resize, the operation stops there, every list has a
\* null head or an acyclic null-terminated chain of live nodes that no other
\* list shares, the source of a copy is unchanged, and every node the call
\* created is either in the receiver's chain or destroyed again: a failed copy
\* construction releases the whole partial chain.
C18_AllocationFailureIsClean ==
    MultiNodeCallFailed =>
        LET l == last.this
            o == last.other
            copy == last.op \in {"copy_construct", "copy_assign"}
        IN /\ \A k \in Lists :
                 /\ ReachesNull(next, head[k], MaxNodes)
                 /\ NoDup(Chain(k))
                 /\ Owned(k) \subseteq allocd \cap constructed
           /\ \A k1, k2 \in Lists : k1 # k2 => Owned(k1) \cap Owned(k2) = {}
           /\ allocd = UNION {Owned(k) : k \in Lists}
           /\ constructed = allocd
           /\ copy =>
                 /\ Chain(o) = last.preOther
                 /\ Elems(o) = last.preElemsOther
                 /\ Len(last.created) < Len(last.preOther)
           /\ ~copy => Len(last.created) < last.cnt
           /\ last.op = "copy_construct" =>
                 /\ ~alive[l] /\ head[l] = NULL
                 /\ last.destroyed = Reverse(last.created)
                 /\ last.deallocated = last.destroyed
           /\ last.op # "copy_construct" =>
                 /\ Len(Chain(l)) >= Len(last.created)
                 /\ SubSeq(Chain(l), 1, Len(last.created)) = Reverse(last.created)
           /\ last.op \in {"copy_assign", "assign"} =>
                 /\ Chain(l) = Reverse(last.created)
                 /\ last.destroyed = last.preThis
           /\ last.op = "resize" =>
                 /\ Chain(l) = Reverse(last.created) \o last.preThis
                 /\ last.destroyed = <<>>
           /\ ~fault

\* a copy construction from a list of two or more nodes that fails after it
\* created a node
C18_Witness ==
    /\ MultiNodeCallFailed
    /\ last.op = "copy_construct"
    /\ Len(last.preOther) >= 2
    /\ Len(last.created) >= 1
    /\ last.destroyed = Reverse(last.created)
    /\ head[last.this] = NULL

\* two stores agree on everything a program can observe
SameEffect(S1, S2) ==
    /\ S1.head = S2.head /\ S1.next = S2.next /\ S1.value = S2.value
    /\ S1.allocd = S2.allocd /\ S1.constructed = S2.constructed
    /\ S1.threw = S2.threw

\* C19: for every argument pack that builds an element, emplace_front(args)
\* can be called and has the same effect on the list as push_front of the
\* element built from those arguments: one new head node holding that value,
\* linked in front of the previous chain.
C19_EmplaceSameAsPush ==
    pc = "idle" =>
        \A l \in {k \in Lists : alive[k]}, args \in EmplaceArgs :
            TypeConstructible(args) =>
                /\ NodeConstructible(args)
                /\ SameEffect(EmplaceFront(Store(NoFail), l, args),
                              PushFront(Store(NoFail), l, TypeFrom(args)))

\* the operations that may change the list passed as argument
TwoListOps == {"swap", "merge", "splice_after", "move_construct", "move_assign"}

\* the lists the step from the current state works on: the receiver, and the
\* argument of a swap, merge, splice_after or move
Touched ==
    IF pc = "merge" THEN {frame.this, frame.other}
    ELSE IF pc' = "merge" THEN {frame'.this, frame'.other}
    ELSE IF last'.op \in TwoListOps THEN {last'.this, last'.other}
    ELSE {last'.this}

\* list k has the same head, node sequence, values and lifetime after the step
SameList(k) ==
    /\ head'[k] = head[k]
    /\ alive'[k] = alive[k]
    /\ Chain(k)' = Chain(k)
    /\ Elems(k)' = Elems(k)

FrameHolds ==
    /\ \A k \in Lists \ Touched : SameList(k)
    /\ \A n \in allocd \ UNION {Owned(k) : k \in Touched} :
          /\ n \in allocd' /\ n \in constructed'
          /\ next'[n] = next[n] /\ value'[n] = value[n]
    /\ \A k \in Lists :
          (last'.op \in {"copy_construct", "copy_assign"} /\ k = last'.other) => SameList(k)

\* C20: push_front, emplace_front, pop_front, assign, resize, remove,
\* remove_if, reverse, unique and clear change no list but the receiver (head,
\* node sequence and values of every other list stay as they were); copy
\* construction and copy assignment leave the source unchanged; swap, merge,
\* splice_after and the move operations change only the receiver and the list
\* passed as argument: every node outside their two chains keeps its link and
\* its value.
C20_Frame == [][FrameHolds]_vars

\* a merge of two different non-empty lists has emptied its argument while a
\* third list's chain exists
C20_Witness ==
    /\ pc = "idle" /\ last.op = "merge" /\ last.this # last.other
    /\ last.preThis # <<>> /\ last.preOther # <<>>
    /\ head[last.other] = NULL
    /\ Unreachable # {}

====
